---- MODULE Spec2Model ----
(***************************************************************************)
(* Hackflight attitude stabilisation: the Stabilize controller             *)
(* (src/src/stabilize.hpp) and the single-axis AnglePid controller         *)
(* (src/src/pidcontrollers/angle.hpp).                                     *)
(*                                                                         *)
(* Numbers.  int16_t / int32_t quantities are integers; a value stored in  *)
(* an int16_t is wrapped by ToInt16.  A float that the code multiplies     *)
(* into an integer and casts back ((int32_t)(x * gain)) is a rational      *)
(* [n |-> numerator, d |-> denominator], d > 0, and the cast truncates     *)
(* toward zero (TruncDiv).  The floats of AnglePid are fixed-point         *)
(* thousandths (Fixed); the inputs and gains used keep every product       *)
(* exact.  Float rounding error is not modelled.                           *)
(*                                                                         *)
(* The two classes share no state: a behaviour of Spec drives one of them  *)
(* (obj) and leaves the other as constructed / initialised.  SpecTwin      *)
(* runs two Stabilize objects side by side on the same update() calls.     *)
(***************************************************************************)
EXTENDS Integers, Sequences, FiniteSets, TLC

\* ------------------------------------------------------------------ bounds

\* update() calls allowed since the last init()
MaxTicks == 5

\* ------------------------------------------------------------- arithmetic

Abs(x) == IF x < 0 THEN -x ELSE x

Max(a, b) == IF a > b THEN a ELSE b

\* n / d truncated toward zero, d > 0: a C cast of a float to an integer
TruncDiv(n, d) == IF n >= 0 THEN n \div d ELSE -((-n) \div d)

Rat(n, d) == [n |-> n, d |-> d]

\* (int32_t)(x * g), x an integer and g a float
CastMul(x, g) == TruncDiv(x * g.n, g.d)

\* conversion of an int to int16_t (two's complement wrap)
ToInt16(x) == ((x + 32768) % 65536) - 32768

AXIS_ROLL == 0
AXIS_PITCH == 1
AXIS_YAW == 2

\* ------------------------------------------------- Filter (not under src/)

\* Filter::constrainAbs: clamp into [-limit, +limit]
constrainAbs(amt, limit) ==
    IF amt < -limit THEN -limit ELSE IF amt > limit THEN limit ELSE amt

\* Filter::complementary: a*(1-proportion) + b*proportion, as a rational
complementary(a, b, proportion) ==
    Rat(a * (proportion.d - proportion.n) + b * proportion.n, proportion.d)

\* Filter::deg2rad on fixed-point thousandths (pi/180 = 0.017453)
deg2rad(degrees) == TruncDiv(degrees * 17453, 1000000)

\* ---------------------------------------------------------------- Stabilize
\* A Stabilize object is a record s of its fields: config, imuConfig, model,
\* softwareTrim, lastGyro, delta1, delta2, errorGyroI, errorAngleI, axisPids.

\* int16_t demand = 1000 * rcCommand
DemandOf(rcCommand) == ToInt16(TruncDiv(1000 * rcCommand.n, rcCommand.d))

\* float prop = max(|demandRoll|, |demandPitch|) / 500.f
PropOf(demandRoll, demandPitch) == Rat(Max(Abs(demandRoll), Abs(demandPitch)), 500)

\* the condition that resets the rate integral
ResetGyroIMutYawAll(s, rcCommand, gyroRaw, axis) ==
    \/ Abs(gyroRaw[axis]) > s.config.bigGyro
    \/ Abs(rcCommand) > s.config.bigYawDemand

ResetGyroI(s, rcCommand, gyroRaw, axis) ==
    \/ Abs(gyroRaw[axis]) > s.config.bigGyro
    \/ (axis = AXIS_YAW /\ Abs(rcCommand) > s.config.bigYawDemand)

\* the rate integral after accumulate-and-clamp, before the reset
AccumulateGyroIMutNoClamp(s, error, axis) == s.errorGyroI[axis] + error

AccumulateGyroI(s, error, axis) ==
    constrainAbs(s.errorGyroI[axis] + error, s.config.gyroWindupMax)

\* computeITermGyro: [s |-> the object afterwards, ITerm |-> the value returned,
\* sum |-> errorGyroI + error before the clamp, acc |-> after the clamp]
computeITermGyro(s, rateP, rateI, rcCommand, gyroRaw, axis) ==
    LET error == CastMul(rcCommand, rateP) - gyroRaw[axis]
        acc   == AccumulateGyroI(s, error, axis)
        new   == IF ResetGyroI(s, rcCommand, gyroRaw, axis) THEN 0 ELSE acc
    IN  [s     |-> [s EXCEPT !.errorGyroI[axis] = new],
         ITerm |-> CastMul(new, rateI),
         sum   |-> s.errorGyroI[axis] + error,
         acc   |-> acc]

\* computePid: the int16_t returned
computePidMutNoTrim(s, rateP, PTerm, ITerm, DTerm, gyroRaw, axis) ==
    ToInt16((PTerm - CastMul(gyroRaw[axis], rateP)) + ITerm - DTerm)

computePid(s, rateP, PTerm, ITerm, DTerm, gyroRaw, axis) ==
    ToInt16((PTerm - CastMul(gyroRaw[axis], rateP)) + ITerm - DTerm + s.softwareTrim[axis])

\* line 129: the angle integral accumulates errorAngle, clamped
AccumulateAngleIMutWrongArray(s, imuAxis, errorAngle) ==
    [s EXCEPT !.errorGyroI[imuAxis] =
        constrainAbs(s.errorAngleI[imuAxis] + errorAngle, s.config.angleWindupMax)]

AccumulateAngleI(s, imuAxis, errorAngle) ==
    [s EXCEPT !.errorAngleI[imuAxis] =
        constrainAbs(s.errorAngleI[imuAxis] + errorAngle, s.config.angleWindupMax)]

\* lines 135-139: the derivative history; [s, deltaSum]
DeltaHistoryMutNoShift(s, gyroRaw, imuAxis) ==
    LET delta == gyroRaw[imuAxis] - s.lastGyro[imuAxis]
    IN  [s        |-> [s EXCEPT !.lastGyro[imuAxis] = gyroRaw[imuAxis],
                                !.delta1[imuAxis] = delta],
         deltaSum |-> s.delta1[imuAxis] + s.delta2[imuAxis] + delta]

DeltaHistory(s, gyroRaw, imuAxis) ==
    LET delta == gyroRaw[imuAxis] - s.lastGyro[imuAxis]
    IN  [s        |-> [s EXCEPT !.lastGyro[imuAxis] = gyroRaw[imuAxis],
                                !.delta2[imuAxis] = s.delta1[imuAxis],
                                !.delta1[imuAxis] = delta],
         deltaSum |-> s.delta1[imuAxis] + s.delta2[imuAxis] + delta]

\* computeLevelPid: [s, out, and the intermediate terms of the call]
computeLevelPid(s, rcCommand, prop, gyroRaw, eulerAnglesDegrees, imuAxis) ==
    LET g          == computeITermGyro(s, s.model.ratePitchrollP, s.model.ratePitchrollI,
                                       rcCommand, gyroRaw, imuAxis)
        errorAngle == constrainAbs(2 * rcCommand, CastMul(10, s.imuConfig.maxAngleInclination))
                      - CastMul(10, eulerAnglesDegrees[imuAxis])
        PTermAccel == CastMul(errorAngle, s.model.levelP)
        s2         == AccumulateAngleI(g.s, imuAxis, errorAngle)
        blend      == complementary(rcCommand, PTermAccel, prop)
        PTerm      == TruncDiv(blend.n, blend.d)
        ITerm      == CastMul(g.ITerm, prop)
        h          == DeltaHistory(s2, gyroRaw, imuAxis)
        DTerm      == CastMul(h.deltaSum, s.model.ratePitchrollD)
    IN  [s          |-> h.s,
         out        |-> computePid(h.s, s.model.ratePitchrollP, PTerm, ITerm, DTerm,
                                   gyroRaw, imuAxis),
         g          |-> g,
         errorAngle |-> errorAngle,
         PTermAccel |-> PTermAccel,
         PTerm      |-> PTerm,
         ITerm      |-> ITerm,
         deltaSum   |-> h.deltaSum]

\* line 165: the bound of the yaw-jump clamp
YawJumpLimitMutWide(demandYaw) == 1000 + Abs(demandYaw)

YawJumpLimit(demandYaw) == 100 + Abs(demandYaw)

\* update: [s |-> the object afterwards, obs |-> the values of the call]
update(s, rcCommand, gyroRaw, eulerAnglesDegrees) ==
    LET demandRoll  == DemandOf(rcCommand[AXIS_ROLL])
        demandPitch == DemandOf(rcCommand[AXIS_PITCH])
        demandYaw   == DemandOf(rcCommand[AXIS_YAW])
        prop        == PropOf(demandRoll, demandPitch)
        r  == computeLevelPid(s, demandRoll, prop, gyroRaw, eulerAnglesDegrees, AXIS_ROLL)
        s1 == [r.s EXCEPT !.axisPids[AXIS_ROLL] = r.out]
        p  == computeLevelPid(s1, demandPitch, prop, gyroRaw, eulerAnglesDegrees, AXIS_PITCH)
        s2 == [p.s EXCEPT !.axisPids[AXIS_PITCH] = p.out]
        y  == computeITermGyro(s2, s.model.yawP, s.model.yawI, demandYaw, gyroRaw, AXIS_YAW)
        yawPid == computePid(y.s, s.model.yawP, demandYaw, y.ITerm, 0, gyroRaw, AXIS_YAW)
        s3 == [y.s EXCEPT !.axisPids[AXIS_YAW] =
                  ToInt16(constrainAbs(yawPid, YawJumpLimit(demandYaw)))]
    IN  [s   |-> s3,
         obs |-> [demand     |-> (AXIS_ROLL :> demandRoll) @@ (AXIS_PITCH :> demandPitch)
                                 @@ (AXIS_YAW :> demandYaw),
                  gyroRaw    |-> gyroRaw,
                  eulerAnglesDegrees |-> eulerAnglesDegrees,
                  prop       |-> prop,
                  ITermGyro  |-> (AXIS_ROLL :> r.g.ITerm) @@ (AXIS_PITCH :> p.g.ITerm)
                                 @@ (AXIS_YAW :> y.ITerm),
                  sumGyroI   |-> (AXIS_ROLL :> r.g.sum) @@ (AXIS_PITCH :> p.g.sum)
                                 @@ (AXIS_YAW :> y.sum),
                  accGyroI   |-> (AXIS_ROLL :> r.g.acc) @@ (AXIS_PITCH :> p.g.acc)
                                 @@ (AXIS_YAW :> y.acc),
                  errorAngle |-> (AXIS_ROLL :> r.errorAngle) @@ (AXIS_PITCH :> p.errorAngle),
                  PTermAccel |-> (AXIS_ROLL :> r.PTermAccel) @@ (AXIS_PITCH :> p.PTermAccel),
                  PTerm      |-> (AXIS_ROLL :> r.PTerm) @@ (AXIS_PITCH :> p.PTerm),
                  deltaSum   |-> (AXIS_ROLL :> r.deltaSum) @@ (AXIS_PITCH :> p.deltaSum),
                  yawPid     |-> yawPid]]

\* resetIntegral
resetIntegralMutSkipAngle(s) ==
    [s EXCEPT !.errorGyroI = [a \in {AXIS_ROLL, AXIS_PITCH, AXIS_YAW} |-> 0]]

resetIntegral(s) ==
    [s EXCEPT !.errorGyroI  = [a \in {AXIS_ROLL, AXIS_PITCH, AXIS_YAW} |-> 0],
              !.errorAngleI = [a \in {AXIS_ROLL, AXIS_PITCH} |-> 0]]

\* init: the object after init(config, imuConfig, model); axisPids is not written
init(s, config, imuConfig, model) ==
    resetIntegral(
        [s EXCEPT !.config   = config,
                  !.imuConfig = imuConfig,
                  !.model    = model,
                  !.lastGyro = [a \in {AXIS_ROLL, AXIS_PITCH} |-> 0],
                  !.delta1   = [a \in {AXIS_ROLL, AXIS_PITCH} |-> 0],
                  !.delta2   = [a \in {AXIS_ROLL, AXIS_PITCH} |-> 0],
                  !.softwareTrim = (AXIS_ROLL :> ToInt16(model.softwareTrimRoll))
                                   @@ (AXIS_PITCH :> ToInt16(model.softwareTrimPitch))
                                   @@ (AXIS_YAW :> ToInt16(model.softwareTrimYaw))])

\* ----------------------------------------------------------------- AnglePid
\* An AnglePid object is a record a of its fields.  Its floats are fixed-point
\* thousandths.

Fixed(x) == x * 1000

WINDUP_MAX == 6
BIG_DEGREES_PER_SECOND == 40

\* a float product x * g of a fixed-point x and a gain g
FMul(x, g) == TruncDiv(x * g.n, g.d)

\* line 97: if (_D > 0)
DBranchMutAlways(a) == TRUE

DBranch(a) == a._D.n > 0

\* line 85: accumulate and clamp
AccumulateErrorI(a, error) == constrainAbs(a._errorI + error, Fixed(WINDUP_MAX))

\* line 88: the reset condition
BigAngularVelocity(a, angularVelocity) == Abs(angularVelocity) > a._bigAngularVelocity

\* compute: [a |-> the object afterwards, result, and the terms of the call]
compute(a, demand, angularVelocity, itermFactor) ==
    LET pterm  == FMul(FMul(demand, a._demandScale) - angularVelocity, a._P)
        error  == FMul(demand, a._demandScale) - angularVelocity
        acc    == AccumulateErrorI(a, error)
        errorI == IF BigAngularVelocity(a, angularVelocity) THEN 0 ELSE acc
        iterm  == FMul(errorI, a._I)
        dterm  == 0
        deltaError == error - a._lastError
    IN  [a |-> [a EXCEPT !._errorI = errorI,
                         !._lastError = IF DBranch(a) THEN error ELSE @],
         result |-> pterm + iterm + dterm,
         pterm  |-> pterm,
         iterm  |-> iterm,
         dterm  |-> dterm,
         error  |-> error,
         deltaError |-> deltaError,
         angularVelocity |-> angularVelocity]

\* AnglePid::resetIntegral
pidResetIntegral(a) == [a EXCEPT !._errorI = 0]

\* AnglePid::updateReceiver
updateReceiver(a, throttleIsDown) == IF throttleIsDown THEN pidResetIntegral(a) ELSE a

\* AnglePid::init
pidInit(a, P, I, D, demandScale) ==
    pidResetIntegral(
        [a EXCEPT !._P = P, !._I = I, !._D = D, !._demandScale = demandScale,
                  !._lastError = 0,
                  !._bigAngularVelocity = deg2rad(Fixed(BIG_DEGREES_PER_SECOND))])

\* the object as constructed (default member initialisers)
pidConstructed ==
    [_bigAngularVelocity |-> 0, _P |-> Rat(0, 1), _I |-> Rat(0, 1), _D |-> Rat(0, 1),
     _lastError |-> 0, _errorI |-> 0, _demandScale |-> Rat(0, 1)]

\* ------------------------------------------------------------ configurations

Gain0 == Rat(0, 1)

StabilizeConfigs ==
    {[gyroWindupMax |-> 300, angleWindupMax |-> 500, bigGyro |-> 40, bigYawDemand |-> 300]}

ImuConfigs == {[maxAngleInclination |-> Rat(45, 1)]}

SoftwareTrims == {<<5, -7, 150>>, <<3, -2, -40>>}

\* the gains of Model: two settings
GainSettings ==
    {[ratePitchrollP |-> Rat(1, 2), ratePitchrollI |-> Rat(1, 4),
      ratePitchrollD |-> Rat(3, 2), yawP |-> Rat(2, 1), yawI |-> Rat(1, 2),
      levelP |-> Rat(1, 2)],
     [ratePitchrollP |-> Rat(1, 1), ratePitchrollI |-> Rat(1, 2),
      ratePitchrollD |-> Gain0, yawP |-> Rat(1, 1), yawI |-> Rat(1, 4),
      levelP |-> Rat(2, 1)]}

Models ==
    {[ratePitchrollP |-> g.ratePitchrollP, ratePitchrollI |-> g.ratePitchrollI,
      ratePitchrollD |-> g.ratePitchrollD, yawP |-> g.yawP, yawI |-> g.yawI,
      levelP |-> g.levelP,
      softwareTrimRoll |-> t[1], softwareTrimPitch |-> t[2], softwareTrimYaw |-> t[3]] :
        g \in GainSettings, t \in SoftwareTrims}

\* what axisPids may hold before the first update(): init() does not write it
UninitAxisPids == {<<0, 0, 0>>, <<-1, 77, 12345>>}

\* the inputs of one update(): rcCommand (floats), gyroRaw (int16_t), Euler angles
\* in degrees (floats), indexed by axis
Vec3(x, y, z) == (AXIS_ROLL :> x) @@ (AXIS_PITCH :> y) @@ (AXIS_YAW :> z)

Vec2(x, y) == (AXIS_ROLL :> x) @@ (AXIS_PITCH :> y)

UpdateInputs ==
    {[rcCommand |-> Vec3(Gain0, Gain0, Gain0), gyroRaw |-> Vec3(0, 0, 0),
      eulerAnglesDegrees |-> Vec3(Gain0, Gain0, Gain0)],
     [rcCommand |-> Vec3(Rat(1, 2), Gain0, Gain0), gyroRaw |-> Vec3(10, -20, 5),
      eulerAnglesDegrees |-> Vec3(Rat(1, 2), Rat(-3, 4), Gain0)],
     [rcCommand |-> Vec3(Gain0, Gain0, Rat(2, 5)), gyroRaw |-> Vec3(50, -10, -100),
      eulerAnglesDegrees |-> Vec3(Rat(3, 1), Rat(-3, 4), Rat(90, 1))],
     [rcCommand |-> Vec3(Rat(-1, 3), Rat(1, 10), Rat(1, 5)), gyroRaw |-> Vec3(-30, 40, 25),
      eulerAnglesDegrees |-> Vec3(Rat(-2, 1), Rat(1, 1), Gain0)]}

\* the errorAngleI values the second Stabilize object of SpecTwin starts from
AngleIPerturbations == {Vec2(0, 0), Vec2(120, -60), Vec2(-500, 500)}

\* init() arguments: P, I and the demand scale come as one of two settings
PidSettings ==
    {[P |-> Rat(1, 2), I |-> Rat(1, 2), demandScale |-> Rat(1, 1)],
     [P |-> Rat(1, 1), I |-> Rat(1, 4), demandScale |-> Rat(3, 2)]}

PidD == {Gain0, Rat(1, 4)}

\* compute() inputs, fixed-point thousandths
PidDemands == {-1000, 0, 2000}

PidVelocities == {-1000, 0, 500}

\* -------------------------------------------------------------------- state

VARIABLES
    \* the Stabilize object
    config, imuConfig, model, softwareTrim,
    lastGyro, delta1, delta2, errorGyroI, errorAngleI, axisPids,
    \* the AnglePid object
    _bigAngularVelocity, _P, _I, _D, _lastError, _errorI, _demandScale,
    \* which of the two (independent) objects this run drives
    obj,
    \* the last operation called, and the accumulators a resetIntegral found
    lastOp, prior,
    \* update() calls since init(), and the last four gyro samples since init(),
    \* newest first (roll and pitch)
    ticks, samples,
    \* the values of the last update() and of the last compute()
    obs, pidObs,
    \* a second Stabilize object given the same calls (non-interference)
    twin

stabVars == <<config, imuConfig, model, softwareTrim,
              lastGyro, delta1, delta2, errorGyroI, errorAngleI, axisPids>>

pidVars == <<_bigAngularVelocity, _P, _I, _D, _lastError, _errorI, _demandScale>>

vars == <<stabVars, pidVars, obj, lastOp, prior, ticks, samples, obs, pidObs, twin>>

\* the Stabilize object as a record
Stab ==
    [config |-> config, imuConfig |-> imuConfig, model |-> model,
     softwareTrim |-> softwareTrim, lastGyro |-> lastGyro, delta1 |-> delta1,
     delta2 |-> delta2, errorGyroI |-> errorGyroI, errorAngleI |-> errorAngleI,
     axisPids |-> axisPids]

SetStab(s) ==
    /\ config' = s.config
    /\ imuConfig' = s.imuConfig
    /\ model' = s.model
    /\ softwareTrim' = s.softwareTrim
    /\ lastGyro' = s.lastGyro
    /\ delta1' = s.delta1
    /\ delta2' = s.delta2
    /\ errorGyroI' = s.errorGyroI
    /\ errorAngleI' = s.errorAngleI
    /\ axisPids' = s.axisPids

\* the AnglePid object as a record
Pid ==
    [_bigAngularVelocity |-> _bigAngularVelocity, _P |-> _P, _I |-> _I, _D |-> _D,
     _lastError |-> _lastError, _errorI |-> _errorI, _demandScale |-> _demandScale]

SetPid(a) ==
    /\ _bigAngularVelocity' = a._bigAngularVelocity
    /\ _P' = a._P
    /\ _I' = a._I
    /\ _D' = a._D
    /\ _lastError' = a._lastError
    /\ _errorI' = a._errorI
    /\ _demandScale' = a._demandScale

NoObs == << >>

NoPrior == [errorGyroI |-> Vec3(0, 0, 0), errorAngleI |-> Vec2(0, 0), _errorI |-> 0]

NoSamples == Vec2(<<0, 0, 0, 0>>, <<0, 0, 0, 0>>)

\* a Stabilize object before init(): only axisPids outlives init()
Raw(pids) ==
    [config |-> << >>, imuConfig |-> << >>, model |-> << >>, softwareTrim |-> << >>,
     lastGyro |-> << >>, delta1 |-> << >>, delta2 |-> << >>,
     errorGyroI |-> Vec3(0, 0, 0), errorAngleI |-> Vec2(0, 0),
     axisPids |-> Vec3(pids[1], pids[2], pids[3])]

\* the Stabilize object after init(), the AnglePid object as constructed
InitWith(o, s) ==
    /\ obj = o
    /\ config = s.config
    /\ imuConfig = s.imuConfig
    /\ model = s.model
    /\ softwareTrim = s.softwareTrim
    /\ lastGyro = s.lastGyro
    /\ delta1 = s.delta1
    /\ delta2 = s.delta2
    /\ errorGyroI = s.errorGyroI
    /\ errorAngleI = s.errorAngleI
    /\ axisPids = s.axisPids
    /\ _bigAngularVelocity = pidConstructed._bigAngularVelocity
    /\ _P = pidConstructed._P
    /\ _I = pidConstructed._I
    /\ _D = pidConstructed._D
    /\ _lastError = pidConstructed._lastError
    /\ _errorI = pidConstructed._errorI
    /\ _demandScale = pidConstructed._demandScale
    /\ lastOp = "init"
    /\ prior = NoPrior
    /\ ticks = 0
    /\ samples = NoSamples
    /\ obs = NoObs
    /\ pidObs = NoObs

Init ==
    \/ \E c \in StabilizeConfigs, i \in ImuConfigs, m \in Models, u \in UninitAxisPids :
          /\ InitWith("Stabilize", init(Raw(u), c, i, m))
          /\ twin = Stab
    \/ /\ InitWith("AnglePid",
                   init(Raw(<<0, 0, 0>>), CHOOSE c \in StabilizeConfigs : TRUE,
                        CHOOSE i \in ImuConfigs : TRUE, CHOOSE m \in Models : TRUE))
       /\ twin = Stab

\* ------------------------------------------------------------------ actions

\* Stabilize::init, called again with the configuration of this flight
StabilizeInit ==
    /\ obj = "Stabilize"
    /\ SetStab(init(Stab, config, imuConfig, model))
    /\ twin' = init(twin, config, imuConfig, model)
    /\ lastOp' = "init"
    /\ prior' = NoPrior
    /\ ticks' = 0
    /\ samples' = NoSamples
    /\ obs' = NoObs
    /\ UNCHANGED <<pidVars, obj, pidObs>>

\* Stabilize::update
StabilizeUpdate ==
    /\ obj = "Stabilize"
    /\ ticks < MaxTicks
    /\ \E in \in UpdateInputs :
          LET r == update(Stab, in.rcCommand, in.gyroRaw, in.eulerAnglesDegrees)
          IN  /\ SetStab(r.s)
              /\ obs' = r.obs
              /\ twin' = update(twin, in.rcCommand, in.gyroRaw, in.eulerAnglesDegrees).s
              /\ samples' = [a \in {AXIS_ROLL, AXIS_PITCH} |->
                                <<in.gyroRaw[a]>> \o SubSeq(samples[a], 1, 3)]
    /\ lastOp' = "update"
    /\ prior' = NoPrior
    /\ ticks' = ticks + 1
    /\ UNCHANGED <<pidVars, obj, pidObs>>

\* Stabilize::resetIntegral
StabilizeResetIntegral ==
    /\ obj = "Stabilize"
    /\ SetStab(resetIntegral(Stab))
    /\ twin' = resetIntegral(twin)
    /\ lastOp' = "resetIntegral"
    /\ prior' = [NoPrior EXCEPT !.errorGyroI = errorGyroI, !.errorAngleI = errorAngleI]
    /\ UNCHANGED <<pidVars, obj, ticks, samples, obs, pidObs>>

\* AnglePid::init
AnglePidInit ==
    /\ obj = "AnglePid"
    /\ \E g \in PidSettings, D \in PidD :
          SetPid(pidInit(Pid, g.P, g.I, D, g.demandScale))
    /\ lastOp' = "init"
    /\ prior' = NoPrior
    /\ pidObs' = NoObs
    /\ UNCHANGED <<stabVars, obj, ticks, samples, obs, twin>>

\* AnglePid::compute
AnglePidCompute ==
    /\ obj = "AnglePid"
    /\ \E demand \in PidDemands, angularVelocity \in PidVelocities :
          LET r == compute(Pid, demand, angularVelocity, 0)
          IN  /\ SetPid(r.a)
              /\ pidObs' = [result |-> r.result, pterm |-> r.pterm, iterm |-> r.iterm,
                            dterm |-> r.dterm, error |-> r.error,
                            deltaError |-> r.deltaError,
                            angularVelocity |-> r.angularVelocity,
                            sumErrorI |-> _errorI + r.error]
    /\ lastOp' = "compute"
    /\ prior' = NoPrior
    /\ UNCHANGED <<stabVars, obj, ticks, samples, obs, twin>>

\* AnglePid::resetIntegral
AnglePidResetIntegral ==
    /\ obj = "AnglePid"
    /\ SetPid(pidResetIntegral(Pid))
    /\ lastOp' = "resetIntegral"
    /\ prior' = [NoPrior EXCEPT !._errorI = _errorI]
    /\ UNCHANGED <<stabVars, obj, ticks, samples, obs, pidObs, twin>>

\* AnglePid::updateReceiver
AnglePidUpdateReceiver ==
    /\ obj = "AnglePid"
    /\ \E throttleIsDown \in BOOLEAN :
          /\ SetPid(updateReceiver(Pid, throttleIsDown))
          /\ lastOp' = IF throttleIsDown THEN "updateReceiverDown" ELSE "updateReceiver"
          /\ prior' = IF throttleIsDown THEN [NoPrior EXCEPT !._errorI = _errorI]
                      ELSE NoPrior
    /\ UNCHANGED <<stabVars, obj, ticks, samples, obs, pidObs, twin>>

Next ==
    \/ StabilizeInit
    \/ StabilizeUpdate
    \/ StabilizeResetIntegral
    \/ AnglePidInit
    \/ AnglePidCompute
    \/ AnglePidResetIntegral
    \/ AnglePidUpdateReceiver

Spec == Init /\ [][Next]_vars

\* Two Stabilize objects that differ only in errorAngleI, given the same calls
TwinInit ==
    \E c \in StabilizeConfigs, i \in ImuConfigs, m \in Models, u \in UninitAxisPids,
       e \in AngleIPerturbations :
          /\ InitWith("Stabilize", init(Raw(u), c, i, m))
          /\ twin = [Stab EXCEPT !.errorAngleI = e]

TwinNext == StabilizeUpdate

SpecTwin == TwinInit /\ [][TwinNext]_vars

\* ------------------------------------------------------------------- claims

Axes3 == {AXIS_ROLL, AXIS_PITCH, AXIS_YAW}

Axes2 == {AXIS_ROLL, AXIS_PITCH}

\* C1: after any sequence of init(), update() and resetIntegral() calls every
\* integral accumulator is within its bound: |errorGyroI[axis]| <= gyroWindupMax
\* on the three axes, |errorAngleI[axis]| <= angleWindupMax on roll and pitch,
\* and |_errorI| <= WINDUP_MAX in AnglePid.
C1_IntegralsBounded ==
    /\ \A a \in Axes3 : Abs(errorGyroI[a]) <= config.gyroWindupMax
    /\ \A a \in Axes2 : Abs(errorAngleI[a]) <= config.angleWindupMax
    /\ Abs(_errorI) <= Fixed(WINDUP_MAX)

\* an update() whose accumulation went past both bounds on roll and was clamped
C1_Witness ==
    /\ lastOp = "update"
    /\ Abs(obs.sumGyroI[AXIS_ROLL]) > config.gyroWindupMax
    /\ Abs(errorGyroI[AXIS_ROLL]) = config.gyroWindupMax
    /\ Abs(errorAngleI[AXIS_ROLL]) = config.angleWindupMax

C3_YawJumpBounded ==
    lastOp = "update" => Abs(axisPids[AXIS_YAW]) <= 100 + Abs(obs.demand[AXIS_YAW])

\* an update() whose yaw PID value was outside the bound before the clamp
C3_Witness ==
    /\ lastOp = "update"
    /\ Abs(obs.yawPid) > 100 + Abs(obs.demand[AXIS_YAW])

\* the first update() after init(), with zero demands, gyro samples and angles
ZeroFirstUpdate ==
    /\ lastOp = "update"
    /\ ticks = 1
    /\ \A a \in Axes3 : obs.demand[a] = 0 /\ obs.gyroRaw[a] = 0
    /\ \A a \in Axes2 : obs.eulerAnglesDegrees[a].n = 0

\* C4 as stated: the first update() after init() with all inputs zero gives
\* axisPids[axis] = softwareTrim[axis] on roll, pitch and yaw.
C4_ZeroInputGivesTrim ==
    ZeroFirstUpdate => \A a \in Axes3 : axisPids[a] = softwareTrim[a]

\* C4 amended: the first update() after init() with all inputs zero gives
\* axisPids[axis] = softwareTrim[axis] on roll and pitch, and on yaw the trim
\* clamped into [-100, 100] (the trim itself when |softwareTrim[YAW]| <= 100).
C4_ZeroInputGivesClampedTrim ==
    ZeroFirstUpdate =>
        /\ \A a \in Axes2 : axisPids[a] = softwareTrim[a]
        /\ axisPids[AXIS_YAW] =
              (IF softwareTrim[AXIS_YAW] > 100 THEN 100
               ELSE IF softwareTrim[AXIS_YAW] < -100 THEN -100
               ELSE softwareTrim[AXIS_YAW])
        /\ (Abs(softwareTrim[AXIS_YAW]) <= 100 => axisPids[AXIS_YAW] = softwareTrim[AXIS_YAW])

\* such an update() with non-zero trims and a yaw trim the clamp leaves alone
C4_Witness ==
    /\ ZeroFirstUpdate
    /\ \A a \in Axes3 : softwareTrim[a] # 0
    /\ Abs(softwareTrim[AXIS_YAW]) <= 100

\* C5: resetIntegral() leaves every accumulator at zero whatever it held: the
\* five of Stabilize, and _errorI of AnglePid, also when called through
\* updateReceiver() with throttleIsDown; a second resetIntegral() changes
\* nothing.
C5_ResetZeroesAll ==
    /\ (obj = "Stabilize" /\ lastOp = "resetIntegral") =>
          /\ \A a \in Axes3 : errorGyroI[a] = 0
          /\ \A a \in Axes2 : errorAngleI[a] = 0
          /\ resetIntegral(Stab) = Stab
    /\ (obj = "AnglePid" /\ lastOp \in {"resetIntegral", "updateReceiverDown"}) =>
          /\ _errorI = 0
          /\ pidResetIntegral(Pid) = Pid
          /\ updateReceiver(Pid, TRUE) = Pid

\* a resetIntegral() that found all five accumulators non-zero
C5_Witness ==
    /\ obj = "Stabilize"
    /\ lastOp = "resetIntegral"
    /\ \A a \in Axes3 : prior.errorGyroI[a] # 0
    /\ \A a \in Axes2 : prior.errorAngleI[a] # 0

\* C6: in computeLevelPid the blended P-term equals the angle-loop P-term
\* PTermAccel when prop = 0 and the raw demand rcCommand when prop = 1.
C6_BlendEndpoints ==
    lastOp = "update" =>
        \A a \in Axes2 :
            /\ obs.prop.n = 0 => obs.PTerm[a] = obs.PTermAccel[a]
            /\ obs.prop.n = obs.prop.d => obs.PTerm[a] = obs.demand[a]

\* C7: with D = 0 every compute() has a zero derivative term (the result is
\* P-term + I-term) and _lastError keeps the value init() gave it.
C7_NoDerivativeStateWhenDZero ==
    _D.n = 0 =>
        /\ _lastError = 0
        /\ lastOp = "compute" =>
              (pidObs.dterm = 0 /\ pidObs.result = pidObs.pterm + pidObs.iterm)

\* a compute() with a non-zero error on an initialised controller with D = 0
C7_Witness ==
    /\ lastOp = "compute"
    /\ _D.n = 0
    /\ _P.n # 0
    /\ pidObs.error # 0

\* C8: after the k-th update() since init(), on roll and pitch, lastGyro is
\* sample k, delta1 is sample k minus sample k-1, delta2 is sample k-1 minus
\* sample k-2, and the deltaSum of update k is the sum of the last three
\* deltas, so it depends on no sample older than k-3.
C8_DerivativeHistory ==
    \A a \in Axes2 :
        /\ lastGyro[a] = samples[a][1]
        /\ delta1[a] = samples[a][1] - samples[a][2]
        /\ delta2[a] = samples[a][2] - samples[a][3]
        /\ (obj = "Stabilize" /\ ticks > 0) =>
              obs.deltaSum[a] = (samples[a][1] - samples[a][2])
                                + (samples[a][2] - samples[a][3])
                                + (samples[a][3] - samples[a][4])

\* the fifth update() since init(), after four different roll samples, the
\* first of them (now out of the history) different from the rest
C8_Witness ==
    /\ lastOp = "update"
    /\ ticks >= 5
    /\ Cardinality({samples[AXIS_ROLL][i] : i \in 1..4}) = 4
    /\ delta1[AXIS_ROLL] # 0
    /\ delta2[AXIS_ROLL] # 0

\* C9: with D > 0 the correction compute() returns has a D-term derived from
\* the change in error since the previous call, so a change in error shows in
\* the result.
C9_DerivativeTermUsed ==
    (lastOp = "compute" /\ _D.n > 0 /\ pidObs.deltaError # 0) =>
        (pidObs.dterm # 0 /\ pidObs.result # pidObs.pterm + pidObs.iterm)

\* C10: two Stabilize objects that differ only in errorAngleI and receive the
\* same update() calls have the same axisPids after every call (and still
\* differ in nothing but errorAngleI).
C10_AngleIntegralNotRead ==
    /\ twin.axisPids = axisPids
    /\ twin.errorGyroI = errorGyroI
    /\ twin.lastGyro = lastGyro
    /\ twin.delta1 = delta1
    /\ twin.delta2 = delta2

\* a second update() after which the two objects still differ in errorAngleI
C10_Witness ==
    /\ lastOp = "update"
    /\ ticks >= 2
    /\ twin.errorAngleI[AXIS_ROLL] # errorAngleI[AXIS_ROLL]
    /\ twin.errorAngleI[AXIS_PITCH] # errorAngleI[AXIS_PITCH]

====
